---------------------------- MODULE Spec2Model ----------------------------
(***************************************************************************)
(* Model of the interactive terrain/path playback renderer and of the      *)
(* playback control of the video editor (src/proto/video_editor.py, at the *)
(* end of this header).  The renderer:                                     *)
(* (src/proto/gpx_to_3d_win.py, plot_terrain_3d_opengl): the `state`       *)
(* dictionary, the three GLFW input callbacks and the render loop with its *)
(* playback tick and position lookup.                                      *)
(*                                                                         *)
(* Number representation (the source uses doubles; the model keeps every   *)
(* value as an exact integer multiple of a unit):                          *)
(*   z_scale, speed_scale         value * UI_W      (ratio = pixels/UI_W)  *)
(*   playback_time, total_duration, rel_times                              *)
(*                                seconds * TU, TU = UI_W * ProgWidth      *)
(*   rot_x, rot_z                 degrees * 2       (the 0.5 deg/pixel)    *)
(*   dist                         value * DistUnit                         *)
(*   since_last_frame             glfw.get_time() - state.last_frame_time, *)
(*                                whole seconds                            *)
(*   cur_alpha                    <<numerator, denominator>>               *)
(*   cur_pos                      coordinates * cur_alpha[2]               *)
(*   path_dirs[i]                 <<d, q>> for the vector d / sqrt(q)       *)
(*   turn_angles[i]               <<c, q>> for asin(clip(c / sqrt(q)))      *)
(*   cell                         <<width, height>> of one raster cell in   *)
(*                                local metres; rows run north to south     *)
(*   global_scale                 <<numerator, denominator>>                *)
(*   vertices[k]                  coordinates * 4 / global_scale            *)
(*   tangents[k]                  <<Tr, Tc>>, np.gradient of the above * 2  *)
(*   normals[k]                   <<n, q>> for the vector n / sqrt(q)       *)
(*   z_draw                       <<numerator, denominator>> of the z factor *)
(*                                of glScalef in the last frame drawn        *)
(* Arrays are sequences (index k of the source is k + 1 here); a grid is   *)
(* flattened row by row as reshape(-1, 3) does.                            *)
(* Cursor positions and timestamps are integers.  The window keeps the     *)
(* size it is created with.  Timestamps of a track are non-decreasing and  *)
(* a track has at least three points (shorter tracks do not get past the   *)
(* path preprocessing).                                                    *)
(*                                                                         *)
(* The video editor: self.playing is app_playing here (the renderer has a  *)
(* `playing` of its own); cap_pos is the frame the shared cv2.VideoCapture *)
(* delivers next; thread_pc is the position of the playback thread and     *)
(* ui_pc that of the Tk thread, which runs one handler at a time.          *)
(***************************************************************************)
EXTENDS Integers, Sequences, FiniteSets, TLC

\* ------------------------------------------------------------ constants
NAV_Y == 20
NAV_H == 180
UI_X == 20
UI_W == 200
UI_H == 20
PLAY_BTN_W == 60
WinW == 1280
WinH == 800
ProgMarginX == 20
ProgHeight == 10
ProgMinWidth == 10
UI_Y == NAV_Y + NAV_H + 16
SPEED_UI_Y == UI_Y + 40
PLAY_BTN_Y == SPEED_UI_Y + 40

\* ------------------------------------------------------------ bounds
MaxDt == 1
MaxScroll == 1
MaxYaw == 10
MaxN == 4
MaxT == 3

\* ------------------------------------------------------------ helpers
Max(a, b) == IF a >= b THEN a ELSE b
Min(a, b) == IF a <= b THEN a ELSE b
Abs(a) == IF a < 0 THEN -a ELSE a

RECURSIVE Pow(_, _)
Pow(b, e) == IF e = 0 THEN 1 ELSE b * Pow(b, e - 1)

ProgWidth == Max(ProgMinWidth, WinW - ProgMarginX * 2)
ProgX == ProgMarginX
ProgY == WinH - 30
TU == UI_W * ProgWidth
DistUnit == 1000

VARIABLES
  rel_times, path_pts, total_duration,
  path_dirs, turn_angles, kin_status,
  dem, cell, raw_shape, stride, ds_shape, global_scale,
  vertices, tangents, normals, colors, indices, build_status,
  dist, rot_x, rot_z, last_x, last_y, dragging,
  z_scale, ui_dragging,
  playing, playback_time, speed_scale, speed_dragging, progress_dragging,
  since_last_frame,
  cur_idx, cur_alpha, cur_pos, z_draw,
  pc, should_close, left_down, input_open,
  glfw_inited, window_open, state_made, callbacks_set, gl_enabled,
  terminated, outcome,
  app_playing, cap_open, cap_pos, thread_pc, ui_pc, seek_target,
  is_dragging_progress, was_playing_before_drag

trackVars == <<rel_times, path_pts, total_duration>>
kinVars == <<path_dirs, turn_angles, kin_status>>
demVars == <<dem, cell, raw_shape>>
meshVars == <<stride, ds_shape, global_scale, vertices, tangents, normals,
              colors, indices, build_status>>
sceneVars == <<trackVars, kinVars, demVars, meshVars>>
camVars == <<dist, rot_x, rot_z, last_x, last_y, dragging>>
zVars == <<z_scale, ui_dragging>>
playVars == <<playing, playback_time, speed_scale, speed_dragging, progress_dragging>>
lookupVars == <<cur_idx, cur_alpha, cur_pos, z_draw>>
envVars == <<pc, should_close, left_down, input_open>>
glVars == <<glfw_inited, window_open, state_made, callbacks_set, gl_enabled,
            terminated, outcome>>
\* the renderer (gpx_to_3d_win.py) and the video editor (video_editor.py)
rendererVars == <<sceneVars, camVars, zVars, playVars, since_last_frame, lookupVars,
                  envVars, glVars>>
veVars == <<app_playing, cap_open, cap_pos, thread_pc, ui_pc, seek_target,
            is_dragging_progress, was_playing_before_drag>>
vars == <<rendererVars, veVars>>

\* ------------------------------------------------------------ relative times
\* times with no data (empty or all zero) are replaced by one point per second
SimulatedTimes(times) ==
  IF \A i \in 1..Len(times) : times[i] = 0
  THEN [i \in 1..Len(times) |-> i - 1]
  ELSE times

RelTimes(times) ==
  LET ts == SimulatedTimes(times)
  IN [i \in 1..Len(ts) |-> (ts[i] - ts[1]) * TU]

TotalDuration(rel) ==
  IF rel[Len(rel)] = 0 THEN TU ELSE rel[Len(rel)]

\* scene positions of the track points: distinct, not collinear
PathPoint(i) == <<10 * i, i * i, i + 1>>
PathPts(n) == [i \in 1..n |-> PathPoint(i)]

\* ------------------------------------------------------------ hit tests
InZSlider(x, y) == UI_X <= x /\ x <= UI_X + UI_W /\ UI_Y <= y /\ y <= UI_Y + UI_H
InSpeedSlider(x, y) ==
  UI_X <= x /\ x <= UI_X + UI_W /\ SPEED_UI_Y <= y /\ y <= SPEED_UI_Y + UI_H
InPlayBtn(x, y) ==
  UI_X <= x /\ x <= UI_X + PLAY_BTN_W /\ PLAY_BTN_Y <= y /\ y <= PLAY_BTN_Y + UI_H
InProgress(x, y) ==
  ProgX <= x /\ x <= ProgX + ProgWidth /\ ProgY <= y /\ y <= ProgY + ProgHeight

\* max(0.0, min(1.0, (xpos - UI_X) / UI_W)), as a numerator over UI_W
SliderRatio(x) == Max(0, Min(UI_W, x - UI_X))
\* faulty variant: the ratio is not clamped
ZScaleAtUnclamped(x) == UI_W + (x - UI_X) * 4

ZScaleAt(x) == UI_W + SliderRatio(x) * 4
SpeedAt(x) == UI_W + SliderRatio(x) * 49
\* the x position the knobs are drawn at, <<numerator, denominator>>:
\* UI_X + (z_scale - 1.0) / 4.0 * UI_W and UI_X + (speed_scale - 1.0) / 49.0 * UI_W
ZKnobX(z) == <<4 * UI_X + (z - UI_W), 4>>
SpeedKnobX(sp) == <<49 * UI_X + (sp - UI_W), 49>>

\* max(0.0, min(1.0, (xpos - prog_x) / prog_width)), numerator over ProgWidth
ProgRatio(x) == Max(0, Min(ProgWidth, x - ProgX))
SeekTime(x, total) == ProgRatio(x) * (total \div ProgWidth)


\* ------------------------------------------------------------ playback tick
\* faulty variants of the tick: no clamp; speed ignored; '=' in place of '+='
TickTimeUnclamped(t, dt, speed, total) == t + dt * speed * ProgWidth

TickTimeNoSpeed(t, dt, speed, total) ==
  LET t2 == t + dt * UI_W * ProgWidth
  IN IF t2 >= total THEN total ELSE t2

TickTimeAssign(t, dt, speed, total) ==
  LET t2 == dt * speed * ProgWidth
  IN IF t2 >= total THEN total ELSE t2

\* playback_time += dt * speed_scale, clamped to total_duration
TickTime(t, dt, speed, total) ==
  LET t2 == t + dt * speed * ProgWidth
  IN IF t2 >= total THEN total ELSE t2

\* faulty variant: the tick never stops playback
TickPlayingNever(t, dt, speed, total) == TRUE

\* playing after the tick: stopped once the end is reached
TickPlaying(t, dt, speed, total) ==
  ~(t + dt * speed * ProgWidth >= total)

\* ------------------------------------------------------------ position lookup
\* np.searchsorted(a, v, side='right'): binary search on a[lo..hi-1] (0-based)
RECURSIVE Bisect(_, _, _, _)
Bisect(a, v, lo, hi) ==
  IF lo >= hi THEN lo
  ELSE LET mid == (lo + hi) \div 2
       IN IF v < a[mid + 1] THEN Bisect(a, v, lo, mid)
          ELSE Bisect(a, v, mid + 1, hi)

\* faulty variant: side='left'
RECURSIVE BisectLeft(_, _, _, _)
BisectLeft(a, v, lo, hi) ==
  IF lo >= hi THEN lo
  ELSE LET mid == (lo + hi) \div 2
       IN IF a[mid + 1] < v THEN BisectLeft(a, v, mid + 1, hi)
          ELSE BisectLeft(a, v, lo, mid)

SearchSortedLeft(a, v) == BisectLeft(a, v, 0, Len(a))

SearchSortedRight(a, v) == Bisect(a, v, 0, Len(a))

\* faulty variant: the '- 1' after searchsorted is missing
LookupIdxOffByOne(times, n, t) ==
  Max(0, Min(n - 2, SearchSortedRight(times, t)))

\* idx = max(0, min(len(path_pts) - 2, searchsorted(...) - 1)), 0-based
LookupIdx(times, n, t) ==
  Max(0, Min(n - 2, SearchSortedRight(times, t) - 1))

\* faulty variant: no guard against equal timestamps
LookupAlphaUnguarded(times, idx, t) ==
  <<t - times[idx + 1], times[idx + 2] - times[idx + 1]>>

\* alpha = (cur_t - t1) / (t2 - t1) if t2 - t1 > 1e-6 else 0.0
LookupAlpha(times, idx, t) ==
  LET t1 == times[idx + 1]
      t2 == times[idx + 2]
  IN IF t2 - t1 > TU \div 1000000 THEN <<t - t1, t2 - t1>> ELSE <<0, 1>>

\* cur_pos = p1 + (p2 - p1) * alpha, scaled by alpha's denominator
LookupPos(pts, idx, alpha) ==
  LET p1 == pts[idx + 1]
      p2 == pts[idx + 2]
  IN [k \in 1..3 |-> p1[k] * alpha[2] + (p2[k] - p1[k]) * alpha[1]]

PositionLookup(t) ==
  LET idx == LookupIdx(rel_times, Len(path_pts), t)
      alpha == LookupAlpha(rel_times, idx, t)
  IN /\ cur_idx' = idx
     /\ cur_alpha' = alpha
     /\ cur_pos' = LookupPos(path_pts, idx, alpha)

\* ------------------------------------------------------------ path kinematics
LOOK_AHEAD == 5

VecAdd(p, q) == [k \in 1..3 |-> p[k] + q[k]]
VecSub(p, q) == [k \in 1..3 |-> p[k] - q[k]]
Dot3(a, b) == a[1] * b[1] + a[2] * b[2] + a[3] * b[3]
\* (d[:2] ** 2).sum(), the square of np.linalg.norm(d[:2])
NormSqXY(d) == d[1] * d[1] + d[2] * d[2]

\* index k of a Python sequence of length n: a negative k counts from the end
PyIndex(n, k) == IF k < 0 THEN n + k ELSE k
PyIndexOk(n, k) == 0 <= PyIndex(n, k) /\ PyIndex(n, k) < n
\* a[dst] = a[src]: both indexes must exist
PyCopyOk(n, dst, src) == PyIndexOk(n, src) /\ PyIndexOk(n, dst)
PyCopy(a, dst, src) ==
  [a EXCEPT ![PyIndex(Len(a), dst) + 1] = a[PyIndex(Len(a), src) + 1]]

\* path_pts[i + 1] - path_pts[i], i counted from 0
Segment(pts, i) == VecSub(pts[i + 2], pts[i + 1])

\* np.zeros: the entries of path_dirs and turn_angles before the loops
ZeroDir == << <<0, 0, 0>>, 1 >>
ZeroTurn == <<0, 1>>

\* path_dirs[i] of the first loop: the unit vector of segment i, or the
\* previous direction (the x axis for i = 0) when its xy length is not
\* above 1e-6 (integer coordinates: when it is zero)
RECURSIVE PathDirAt(_, _)
PathDirAt(pts, i) ==
  LET d == Segment(pts, i)
  IN IF NormSqXY(d) > 0 THEN <<d, Dot3(d, d)>>
     ELSE IF i > 0 THEN PathDirAt(pts, i - 1)
     ELSE << <<1, 0, 0>>, 1 >>

\* path_dirs after `for i in range(len(path_pts) - 1)`
DirsLoop(pts) ==
  [k \in 1..Len(pts) |-> IF k < Len(pts) THEN PathDirAt(pts, k - 1) ELSE ZeroDir]

\* cross = d1[0] * d2[1] - d1[1] * d2[0]
Cross2D(d1, d2) == d1[1] * d2[2] - d1[2] * d2[1]

\* turn_angles[i] of the second loop: arcsin(clip(cross, -1, 1)) of the
\* unit vectors of segment i and of segment min(i + LOOK_AHEAD, n - 2)
TurnAngleAt(pts, i) ==
  LET j == Min(i + LOOK_AHEAD, Len(pts) - 2)
      d1 == Segment(pts, i)
      d2 == Segment(pts, j)
  IN IF NormSqXY(d1) > 0 /\ NormSqXY(d2) > 0
     THEN <<Cross2D(d1, d2), NormSqXY(d1) * NormSqXY(d2)>>
     ELSE ZeroTurn

\* turn_angles after `for i in range(len(path_pts) - 2)`
TurnsLoop(pts) ==
  [k \in 1..Len(pts) |->
     IF k <= Len(pts) - 2 THEN TurnAngleAt(pts, k - 1) ELSE ZeroTurn]

\* the whole preprocessing; an index that does not exist raises IndexError
\* and leaves the arrays as they are at that statement
Kinematics(pts) ==
  LET n == Len(pts)
  IN IF ~PyCopyOk(n, -1, -2)
     THEN [dirs |-> DirsLoop(pts),
           turns |-> [k \in 1..n |-> ZeroTurn],
           status |-> "IndexError"]
     ELSE IF ~PyCopyOk(n, -2, -3)
     THEN [dirs |-> PyCopy(DirsLoop(pts), -1, -2),
           turns |-> TurnsLoop(pts),
           status |-> "IndexError"]
     ELSE [dirs |-> PyCopy(DirsLoop(pts), -1, -2),
           turns |-> PyCopy(PyCopy(TurnsLoop(pts), -2, -3), -1, -2),
           status |-> "ok"]

\* ------------------------------------------------------------ downsampling
MAX_SIZE == 500

\* stride_row = max(1, h // MAX_SIZE), stride_col = max(1, w // MAX_SIZE)
StrideOf(n) == Max(1, n \div MAX_SIZE)
\* number of elements of a[::s] for an axis of n elements
SliceLen(n, s) == (n + s - 1) \div s
DsStride(shape) == <<StrideOf(shape[1]), StrideOf(shape[2])>>
\* dem_ds.shape
DsShape(shape) ==
  <<SliceLen(shape[1], StrideOf(shape[1])), SliceLen(shape[2], StrideOf(shape[2]))>>
\* dem[::stride_row, ::stride_col]
DemDs(grid, st) ==
  [r \in 1..SliceLen(Len(grid), st[1]) |->
     [c \in 1..SliceLen(Len(grid[1]), st[2]) |->
        grid[(r - 1) * st[1] + 1][(c - 1) * st[2] + 1]]]

\* ------------------------------------------------------------ scene scale
TargetSize == 200
\* Z_SCALE_FACTOR = 1.5 = ZFactorNum / ZFactorDen
ZFactorNum == 3
ZFactorDen == 2

SetMin(S) == CHOOSE m \in S : \A x \in S : m <= x
SetMax(S) == CHOOSE m \in S : \A x \in S : m >= x
GridValues(g) == { g[r][c] : r \in 1..Len(g), c \in 1..Len(g[1]) }

\* range_x, range_y of the centred grid coordinates, range_z of the heights
RangeX(shape, st, cl) == cl[1] * st[2] * (shape[2] - 1)
RangeY(shape, st, cl) == cl[2] * st[1] * (shape[1] - 1)
RangeZ(g) == SetMax(GridValues(g)) - SetMin(GridValues(g))

\* faulty variant: the zero guard is missing
MaxDimUnguarded(g, st, cl) ==
  LET shape == <<Len(g), Len(g[1])>>
  IN Max(Max(RangeX(shape, st, cl), RangeY(shape, st, cl)), RangeZ(g))

\* max_dim = max(range_x, range_y, range_z); if max_dim == 0: max_dim = 1.0
MaxDim(g, st, cl) ==
  LET shape == <<Len(g), Len(g[1])>>
      m == Max(Max(RangeX(shape, st, cl), RangeY(shape, st, cl)), RangeZ(g))
  IN IF m = 0 THEN 1 ELSE m

\* global_scale = target_size / max_dim
GlobalScale(g, st, cl) == <<TargetSize, MaxDim(g, st, cl)>>

\* vertices[r][c] (r, c counted from 0) in units of global_scale / 4:
\* X_local = (X_ds - center_x) * scale_x, Y_local likewise with rows running
\* south, Z_local = (dem_ds - z_min) * Z_SCALE_FACTOR
VertexAt(g, st, cl, r, c) ==
  << 2 * cl[1] * st[2] * (2 * c - (Len(g[1]) - 1)),
     -2 * cl[2] * st[1] * (2 * r - (Len(g) - 1)),
     ((4 * ZFactorNum) \div ZFactorDen) * (g[r + 1][c + 1] - SetMin(GridValues(g))) >>

\* vertices.reshape(-1, 3)
Vertices(g, st, cl) ==
  [k \in 1..(Len(g) * Len(g[1])) |->
     VertexAt(g, st, cl, (k - 1) \div Len(g[1]), (k - 1) % Len(g[1]))]

\* ------------------------------------------------------------ terrain mesh
\* element (r, c) of a grid stored row by row, r and c counted from 0
At(V, cols, r, c) == V[r * cols + c + 1]

\* np.gradient along the rows, times 2: one-sided differences at the two
\* edges, central differences (f[r+1] - f[r-1]) / 2 inside
GradRow2(V, rows, cols, r, c) ==
  [k \in 1..3 |->
     IF r = 0 THEN 2 * (At(V, cols, 1, c)[k] - At(V, cols, 0, c)[k])
     ELSE IF r = rows - 1
     THEN 2 * (At(V, cols, r, c)[k] - At(V, cols, r - 1, c)[k])
     ELSE At(V, cols, r + 1, c)[k] - At(V, cols, r - 1, c)[k]]

\* np.gradient along the columns, times 2
GradCol2(V, rows, cols, r, c) ==
  [k \in 1..3 |->
     IF c = 0 THEN 2 * (At(V, cols, r, 1)[k] - At(V, cols, r, 0)[k])
     ELSE IF c = cols - 1
     THEN 2 * (At(V, cols, r, c)[k] - At(V, cols, r, c - 1)[k])
     ELSE At(V, cols, r, c + 1)[k] - At(V, cols, r, c - 1)[k]]

\* Tr = (dX_dr, dY_dr, dZ_dr), Tc = (dX_dc, dY_dc, dZ_dc) of every vertex
Tangents(V, rows, cols) ==
  [k \in 1..(rows * cols) |->
     << GradRow2(V, rows, cols, (k - 1) \div cols, (k - 1) % cols),
        GradCol2(V, rows, cols, (k - 1) \div cols, (k - 1) % cols) >>]

Cross3(a, b) ==
  << a[2] * b[3] - a[3] * b[2], a[3] * b[1] - a[1] * b[3], a[1] * b[2] - a[2] * b[1] >>

\* faulty variant: the cross product is not divided by its length
NormalOfRaw(t) == << Cross3(t[1], t[2]), 1 >>

\* normals = np.cross(Tr, Tc); norm[norm == 0] = 1.0; normals / norm
NormalOf(t) ==
  LET n == Cross3(t[1], t[2])
  IN << n, IF Dot3(n, n) = 0 THEN 1 ELSE Dot3(n, n) >>

Normals(T) == [k \in 1..Len(T) |-> NormalOf(T[k])]

\* the colour of a vertex (RGB * 100) by its normalised height
\* h = (z - z_min) / z_range: below 0.3, below 0.7, the rest
ColorOf(z, zmin, zrange) ==
  IF 10 * (z - zmin) < 3 * zrange THEN <<10, 45, 10>>
  ELSE IF 10 * (z - zmin) < 7 * zrange THEN <<60, 50, 30>>
  ELSE <<70, 70, 70>>

Colors(V) ==
  LET zs == { V[k][3] : k \in 1..Len(V) }
      zr == IF SetMax(zs) - SetMin(zs) = 0 THEN 1 ELSE SetMax(zs) - SetMin(zs)
  IN [k \in 1..Len(V) |-> ColorOf(V[k][3], SetMin(zs), zr)]

\* the two triangles of grid cell q (row by row, counted from 0)
Tri1(q, cols) ==
  LET R == q \div (cols - 1)
      C == q % (cols - 1)
  IN << R * cols + C, (R + 1) * cols + C, R * cols + (C + 1) >>

\* faulty variant: the last corner is one row too far down
Tri2OutOfGrid(q, cols) ==
  LET R == q \div (cols - 1)
      C == q % (cols - 1)
  IN << (R + 1) * cols + C, (R + 1) * cols + (C + 1), (R + 2) * cols + (C + 1) >>

Tri2(q, cols) ==
  LET R == q \div (cols - 1)
      C == q % (cols - 1)
  IN << (R + 1) * cols + C, (R + 1) * cols + (C + 1), R * cols + (C + 1) >>

\* np.vstack([t1, t2]).flatten(): all first triangles, then all second ones
Indices(rows, cols) ==
  LET K == (rows - 1) * (cols - 1)
  IN [m \in 1..(6 * K) |->
        IF (m - 1) \div 3 < K
        THEN Tri1((m - 1) \div 3, cols)[((m - 1) % 3) + 1]
        ELSE Tri2(((m - 1) \div 3) - K, cols)[((m - 1) % 3) + 1]]

\* the arrays built from the raw grid g0 with strides st and cell size cl;
\* np.gradient raises ValueError for an axis of fewer than two elements
Mesh(g0, st, cl) ==
  LET g == DemDs(g0, st)
      rows == Len(g)
      cols == Len(g[1])
      V == Vertices(g, st, cl)
  IN IF rows < 2 \/ cols < 2
     THEN [scale |-> GlobalScale(g, st, cl), vertices |-> V,
           tangents |-> <<>>, normals |-> <<>>, colors |-> <<>>,
           indices |-> <<>>, status |-> "ValueError"]
     ELSE [scale |-> GlobalScale(g, st, cl), vertices |-> V,
           tangents |-> Tangents(V, rows, cols),
           normals |-> Normals(Tangents(V, rows, cols)),
           colors |-> Colors(V),
           indices |-> Indices(rows, cols), status |-> "ok"]

\* ------------------------------------------------------------ initial state
\* nothing has been drawn yet
NoDraw == <<>>

\* the window exists, the callbacks are registered, the GL state is set up:
\* the situation when the render loop starts
GlUp ==
  /\ glfw_inited = TRUE
  /\ window_open = TRUE
  /\ state_made = TRUE
  /\ callbacks_set = TRUE
  /\ gl_enabled = TRUE
  /\ terminated = FALSE
  /\ outcome = "running"

\* nothing of GLFW is initialised: the situation during the preprocessing
GlDown ==
  /\ glfw_inited = FALSE
  /\ window_open = FALSE
  /\ state_made = FALSE
  /\ callbacks_set = FALSE
  /\ gl_enabled = FALSE
  /\ terminated = FALSE
  /\ outcome = "running"

\* the video editor after load_video: the capture is open and
\* seek_to_frame(0) has read frame 0; nothing plays, no thread was started
VeLoaded ==
  /\ app_playing = FALSE
  /\ cap_open = TRUE
  /\ cap_pos = 1
  /\ thread_pc = "none"
  /\ ui_pc = "idle"
  /\ seek_target = 0
  /\ is_dragging_progress = FALSE
  /\ was_playing_before_drag = FALSE

\* the values of the `state` dictionary as it is created, and the render
\* loop about to start
InitState ==
  /\ dist = 300 * DistUnit
  /\ rot_x = 45 * 2
  /\ rot_z = 0
  /\ last_x = 0
  /\ last_y = 0
  /\ dragging = FALSE
  /\ z_scale = (3 * UI_W) \div 2
  /\ ui_dragging = FALSE
  /\ playing = FALSE
  /\ playback_time = 0
  /\ speed_scale = 3 * UI_W
  /\ speed_dragging = FALSE
  /\ progress_dragging = FALSE
  /\ since_last_frame = 0
  /\ cur_idx = -1
  /\ cur_alpha = <<0, 1>>
  /\ cur_pos = <<0, 0, 0>>
  /\ z_draw = NoDraw
  /\ pc = "frame"
  /\ should_close = FALSE
  /\ left_down = FALSE
  /\ input_open = TRUE
  /\ GlUp
  /\ VeLoaded

LoadTrack(times) ==
  /\ rel_times = RelTimes(times)
  /\ path_pts = PathPts(Len(times))
  /\ total_duration = TotalDuration(RelTimes(times))
  /\ path_dirs = Kinematics(PathPts(Len(times))).dirs
  /\ turn_angles = Kinematics(PathPts(Len(times))).turns
  /\ kin_status = Kinematics(PathPts(Len(times))).status

\* tracks of the playback specification: no time data (one point per second),
\* a single repeated timestamp (duration fallback), and a timed track with a
\* repeated timestamp
Tracks == { <<0, 0, 0>>, <<7, 7, 7>>, <<3, 5, 5, 7>> }

\* the arrays of the raw grid g0 with cell size cl, as they are when the
\* render loop starts
LoadTerrain(g0, cl) ==
  LET shape == <<Len(g0), Len(g0[1])>>
      m == Mesh(g0, DsStride(shape), cl)
  IN /\ dem = g0
     /\ cell = cl
     /\ raw_shape = shape
     /\ stride = DsStride(shape)
     /\ ds_shape = DsShape(shape)
     /\ global_scale = m.scale
     /\ vertices = m.vertices
     /\ tangents = m.tangents
     /\ normals = m.normals
     /\ colors = m.colors
     /\ indices = m.indices
     /\ build_status = m.status

\* terrain of the playback specifications: a 2 x 2 slope
SlopeDem == << <<0, 1>>, <<1, 2>> >>
SlopeCell == <<1, 1>>

Init ==
  /\ \E times \in Tracks : LoadTrack(times)
  /\ LoadTerrain(SlopeDem, SlopeCell)
  /\ InitState

\* ------------------------------------------------------------ render loop
\* faulty variant: the loop condition does not look at the close request
WindowShouldCloseNever == FALSE

\* glfw.window_should_close(window)
WindowShouldClose == should_close

\* faulty variant: the slider value is used as the z factor as it is
ZDrawUndivided(z) == <<z, UI_W>>

\* glScalef(1.0, 1.0, current_scale / Z_SCALE_FACTOR)
ZDraw(z) == <<ZFactorDen * z, ZFactorNum * UI_W>>

\* one iteration of the while loop up to glfw.poll_events(): the terrain is
\* drawn with the z factor, then the playback tick with dt = time since
\* last_frame_time and the position lookup
Frame ==
  /\ pc = "frame"
  /\ ~WindowShouldClose
  /\ LET dt == since_last_frame
         ticking == playing /\ ~progress_dragging
         t == IF ticking
              THEN TickTime(playback_time, dt, speed_scale, total_duration)
              ELSE playback_time
     IN /\ playback_time' = t
        /\ playing' = IF ticking
                      THEN TickPlaying(playback_time, dt, speed_scale, total_duration)
                      ELSE playing
        /\ PositionLookup(t)
  /\ z_draw' = ZDraw(z_scale)
  /\ since_last_frame' = 0
  /\ pc' = "poll"
  /\ UNCHANGED <<veVars, sceneVars, glVars, camVars, zVars, speed_scale, speed_dragging,
                 progress_dragging, should_close, left_down, input_open>>

\* glfw.poll_events() returns: back to the loop condition
EndPoll ==
  /\ pc = "poll"
  /\ pc' = "frame"
  /\ UNCHANGED <<veVars, sceneVars, glVars, camVars, zVars, playVars, since_last_frame,
                 lookupVars, should_close, left_down, input_open>>

\* the loop condition sees the close request: glfw.terminate()
LoopExit ==
  /\ pc = "frame"
  /\ WindowShouldClose
  /\ pc' = "done"
  /\ terminated' = TRUE
  /\ outcome' = "closed"
  /\ UNCHANGED <<veVars, sceneVars, camVars, zVars, playVars, since_last_frame,
                 lookupVars, should_close, left_down, input_open, glfw_inited,
                 window_open, state_made, callbacks_set, gl_enabled>>

\* the wall clock advances
TimePasses ==
  /\ pc # "done"
  /\ since_last_frame < MaxDt
  /\ since_last_frame' = since_last_frame + 1
  /\ UNCHANGED <<veVars, sceneVars, glVars, camVars, zVars, playVars, lookupVars, envVars>>

\* ------------------------------------------------------------ mouse button
\* faulty variant: the slider press also starts a camera drag
PressZSliderAndCamera(x) ==
  /\ ui_dragging' = TRUE
  /\ z_scale' = ZScaleAt(x)
  /\ dragging' = TRUE
  /\ UNCHANGED <<dist, rot_x, rot_z, last_x, last_y, playVars, since_last_frame>>

\* left press inside the vertical-exaggeration slider
PressZSlider(x) ==
  /\ ui_dragging' = TRUE
  /\ z_scale' = ZScaleAt(x)
  /\ UNCHANGED <<camVars, playVars, since_last_frame>>

\* faulty variant: the press on the speed slider pauses playback
PressSpeedSliderPausing(x) ==
  /\ speed_dragging' = TRUE
  /\ speed_scale' = SpeedAt(x)
  /\ playing' = FALSE
  /\ UNCHANGED <<camVars, zVars, playback_time, progress_dragging,
                 since_last_frame>>

\* left press inside the speed slider
PressSpeedSlider(x) ==
  /\ speed_dragging' = TRUE
  /\ speed_scale' = SpeedAt(x)
  /\ UNCHANGED <<camVars, zVars, playing, playback_time, progress_dragging,
                 since_last_frame>>

\* faulty variants of the scrub press: it pauses playback; it uses the
\* slider width
PressProgressPausing(x) ==
  /\ progress_dragging' = TRUE
  /\ playing' = FALSE
  /\ playback_time' = SeekTime(x, total_duration)
  /\ UNCHANGED <<camVars, zVars, speed_scale, speed_dragging, since_last_frame>>

PressProgressSliderWidth(x) ==
  /\ progress_dragging' = TRUE
  /\ playback_time' = SliderRatio(x) * (total_duration \div UI_W)
  /\ UNCHANGED <<camVars, zVars, playing, speed_scale, speed_dragging,
                 since_last_frame>>

\* left press inside the scrub bar
PressProgress(x) ==
  /\ progress_dragging' = TRUE
  /\ playback_time' = SeekTime(x, total_duration)
  /\ UNCHANGED <<camVars, zVars, playing, speed_scale, speed_dragging,
                 since_last_frame>>

\* faulty variant: resuming does not restart the frame clock
PressPlayBtnOldClock ==
  /\ playing' = ~playing
  /\ playback_time' = IF ~playing /\ playback_time >= total_duration
                      THEN 0 ELSE playback_time
  /\ UNCHANGED <<camVars, zVars, speed_scale, speed_dragging, progress_dragging,
                 since_last_frame>>

\* faulty variant: resuming from the end does not rewind
PressPlayBtnNoReset ==
  /\ playing' = ~playing
  /\ IF ~playing
     THEN since_last_frame' = 0
     ELSE UNCHANGED since_last_frame
  /\ UNCHANGED <<camVars, zVars, playback_time, speed_scale, speed_dragging,
                 progress_dragging>>

\* left press inside the play/pause button
PressPlayBtn ==
  /\ playing' = ~playing
  /\ IF ~playing
     THEN /\ since_last_frame' = 0
          /\ playback_time' = IF playback_time >= total_duration
                              THEN 0 ELSE playback_time
     ELSE UNCHANGED <<since_last_frame, playback_time>>
  /\ UNCHANGED <<camVars, zVars, speed_scale, speed_dragging, progress_dragging>>

\* left press anywhere else: start of a camera drag
PressCamera(x, y) ==
  /\ dragging' = TRUE
  /\ last_x' = x
  /\ last_y' = y
  /\ UNCHANGED <<dist, rot_x, rot_z, zVars, playVars, since_last_frame>>

\* mouse_button_callback, button == LEFT, action == PRESS, cursor at (x, y)
MouseButtonPress(x, y) ==
  /\ pc = "poll"
  /\ input_open
  /\ ~left_down
  /\ left_down' = TRUE
  /\ IF InZSlider(x, y) THEN PressZSlider(x)
     ELSE IF InSpeedSlider(x, y) THEN PressSpeedSlider(x)
     ELSE IF InProgress(x, y) THEN PressProgress(x)
     ELSE IF InPlayBtn(x, y) THEN PressPlayBtn
     ELSE PressCamera(x, y)
  /\ UNCHANGED <<veVars, sceneVars, glVars, lookupVars, pc, should_close, input_open>>

\* faulty variant: the release leaves the exaggeration slider captured
MouseButtonReleaseKeepingSlider ==
  /\ pc = "poll"
  /\ input_open
  /\ left_down
  /\ left_down' = FALSE
  /\ dragging' = FALSE
  /\ speed_dragging' = FALSE
  /\ progress_dragging' = FALSE
  /\ UNCHANGED <<veVars, sceneVars, glVars, dist, rot_x, rot_z, last_x, last_y, zVars,
                 playing, playback_time, speed_scale, since_last_frame,
                 lookupVars, pc, should_close, input_open>>

\* mouse_button_callback, button == LEFT, action == RELEASE
MouseButtonRelease ==
  /\ pc = "poll"
  /\ input_open
  /\ left_down
  /\ left_down' = FALSE
  /\ dragging' = FALSE
  /\ ui_dragging' = FALSE
  /\ speed_dragging' = FALSE
  /\ progress_dragging' = FALSE
  /\ UNCHANGED <<veVars, sceneVars, glVars, dist, rot_x, rot_z, last_x, last_y, z_scale,
                 playing, playback_time, speed_scale, since_last_frame,
                 lookupVars, pc, should_close, input_open>>

\* ------------------------------------------------------------ cursor position
\* faulty variant: the slider lets go when the cursor leaves its width
MoveZSliderReleasing(x) ==
  /\ z_scale' = ZScaleAt(x)
  /\ ui_dragging' = (UI_X <= x /\ x <= UI_X + UI_W)
  /\ UNCHANGED <<camVars, playVars>>

MoveZSlider(x) ==
  /\ z_scale' = ZScaleAt(x)
  /\ UNCHANGED <<camVars, ui_dragging, playVars>>

MoveSpeedSlider(x) ==
  /\ speed_scale' = SpeedAt(x)
  /\ UNCHANGED <<camVars, zVars, playing, playback_time, speed_dragging,
                 progress_dragging>>

MoveProgress(x) ==
  /\ playback_time' = SeekTime(x, total_duration)
  /\ UNCHANGED <<camVars, zVars, playing, speed_scale, speed_dragging,
                 progress_dragging>>

\* faulty variant: the pitch is not clamped
MoveCameraUnclamped(x, y) ==
  /\ rot_z' = rot_z - (x - last_x)
  /\ Abs(rot_z') <= 2 * MaxYaw
  /\ rot_x' = rot_x + (y - last_y)
  /\ last_x' = x
  /\ last_y' = y
  /\ UNCHANGED <<dist, dragging, zVars, playVars>>

\* rot_z -= dx * 0.5, rot_x = max(10, min(89, rot_x + dy * 0.5))
MoveCamera(x, y) ==
  /\ rot_z' = rot_z - (x - last_x)
  /\ Abs(rot_z') <= 2 * MaxYaw
  /\ rot_x' = Max(10 * 2, Min(89 * 2, rot_x + (y - last_y)))
  /\ last_x' = x
  /\ last_y' = y
  /\ UNCHANGED <<dist, dragging, zVars, playVars>>

\* cursor_position_callback with the cursor at (x, y)
CursorMove(x, y) ==
  /\ pc = "poll"
  /\ input_open
  /\ IF ui_dragging THEN MoveZSlider(x)
     ELSE IF speed_dragging THEN MoveSpeedSlider(x)
     ELSE IF progress_dragging THEN MoveProgress(x)
     ELSE IF dragging THEN MoveCamera(x, y)
     ELSE UNCHANGED <<camVars, zVars, playVars>>
  /\ UNCHANGED <<veVars, sceneVars, glVars, since_last_frame, lookupVars, envVars>>

\* ------------------------------------------------------------ scroll, close
\* the distances reachable with at most MaxScroll scroll events
DistValues ==
  { (300 * DistUnit * Pow(9, ab[1]) * Pow(11, ab[2])) \div Pow(10, ab[1] + ab[2]) :
      ab \in { c \in (0..MaxScroll) \X (0..MaxScroll) : c[1] + c[2] <= MaxScroll } }

\* scroll_callback: dist *= 0.9 if yoffset > 0 else 1.1
Scroll(yoffset) ==
  /\ pc = "poll"
  /\ input_open
  /\ dist' = IF yoffset > 0 THEN (dist * 9) \div 10 ELSE (dist * 11) \div 10
  /\ dist' \in DistValues
  /\ UNCHANGED <<veVars, sceneVars, glVars, rot_x, rot_z, last_x, last_y, dragging, zVars,
                 playVars, since_last_frame, lookupVars, envVars>>

\* the user asks the window to close
CloseRequest ==
  /\ pc = "poll"
  /\ input_open
  /\ ~should_close
  /\ should_close' = TRUE
  /\ UNCHANGED <<veVars, sceneVars, glVars, camVars, zVars, playVars, since_last_frame,
                 lookupVars, pc, left_down, input_open>>

\* ------------------------------------------------------------ inputs
\* one press position per widget (three on the scrub bar: ratio 0, 1/2, 1)
\* and two in empty space
PressPoints ==
  { <<20, 226>>, <<20, 266>>, <<50, 306>>,
    <<20, 775>>, <<640, 775>>, <<1260, 775>>,
    <<640, 400>>, <<660, 400>> }

\* cursor positions reported while a button is held: outside every widget;
\* the x positions that matter to the drag in progress
MovePoints ==
  IF ui_dragging \/ speed_dragging THEN { <<220, 400>> }
  ELSE IF progress_dragging THEN { <<20, 400>>, <<640, 400>>, <<1260, 400>> }
  ELSE { <<640, 400>>, <<660, 400>> }

ScrollOffsets == { -1, 0, 1 }

Next ==
  \/ Frame
  \/ EndPoll
  \/ LoopExit
  \/ TimePasses
  \/ \E p \in PressPoints : MouseButtonPress(p[1], p[2])
  \/ MouseButtonRelease
  \/ \E p \in MovePoints : CursorMove(p[1], p[2])
  \/ \E yoffset \in ScrollOffsets : Scroll(yoffset)
  \/ CloseRequest

Spec == Init /\ [][Next]_vars

\* ------------------------------------------------------------ playback left alone
\* the user stops providing input
InputsStop ==
  /\ input_open
  /\ input_open' = FALSE
  /\ UNCHANGED <<veVars, sceneVars, glVars, camVars, zVars, playVars, since_last_frame,
                 lookupVars, pc, should_close, left_down>>

\* a frame whose dt is positive
FrameLive == since_last_frame > 0 /\ Frame

\* presses on the speed slider, the play button and the scrub bar
LivePressPoints ==
  { <<20, 266>>, <<50, 306>>, <<20, 775>>, <<640, 775>>, <<1260, 775>> }

LiveMovePoints ==
  IF speed_dragging THEN { <<220, 400>> }
  ELSE { <<20, 400>>, <<1260, 400>> }

NextLive ==
  \/ FrameLive
  \/ EndPoll
  \/ TimePasses
  \/ \E p \in LivePressPoints : MouseButtonPress(p[1], p[2])
  \/ MouseButtonRelease
  \/ \E p \in LiveMovePoints : CursorMove(p[1], p[2])
  \/ InputsStop

\* the render loop keeps running frames and the clock keeps advancing
SpecLive ==
  /\ Init
  /\ [][NextLive]_vars
  /\ WF_vars(FrameLive)
  /\ WF_vars(EndPoll)
  /\ WF_vars(TimePasses)

\* ------------------------------------------------------------ lookup on any track
\* largest timestamp and cursor (seconds) of the 0 / 10 / 20 scenario
ScenarioEnd == 20

NonDecreasing(times) == \A i \in 1..(Len(times) - 1) : times[i] <= times[i + 1]

LookupTracks ==
  { times \in UNION { [1..n -> 0..MaxT] : n \in 3..MaxN } : NonDecreasing(times) }
    \cup { <<0, 10, 20>> }

\* any cursor in [0, total_duration], in half seconds
InitLookup ==
  /\ \E times \in LookupTracks : LoadTrack(times)
  /\ LoadTerrain(SlopeDem, SlopeCell)
  /\ dist = 300 * DistUnit
  /\ rot_x = 45 * 2
  /\ rot_z = 0
  /\ last_x = 0
  /\ last_y = 0
  /\ dragging = FALSE
  /\ z_scale = (3 * UI_W) \div 2
  /\ ui_dragging = FALSE
  /\ playing = FALSE
  /\ \E k \in 0..(2 * ScenarioEnd) :
       /\ playback_time = k * (TU \div 2)
       /\ playback_time <= total_duration
  /\ speed_scale = 3 * UI_W
  /\ speed_dragging = FALSE
  /\ progress_dragging = FALSE
  /\ since_last_frame = 0
  /\ cur_idx = -1
  /\ cur_alpha = <<0, 1>>
  /\ cur_pos = <<0, 0, 0>>
  /\ z_draw = NoDraw
  /\ pc = "frame"
  /\ should_close = FALSE
  /\ left_down = FALSE
  /\ input_open = TRUE
  /\ GlUp
  /\ VeLoaded

SpecLookup == InitLookup /\ [][Frame]_vars

\* ------------------------------------------------------------ preprocessing
\* the `state` dictionary with the values it is created with and control at
\* position p of the preprocessing; the GLFW start-up that the source runs
\* between the scaling and the mesh arrays is left to the start-up
\* specification
StateAt(p) ==
  /\ dist = 300 * DistUnit
  /\ rot_x = 45 * 2
  /\ rot_z = 0
  /\ last_x = 0
  /\ last_y = 0
  /\ dragging = FALSE
  /\ z_scale = (3 * UI_W) \div 2
  /\ ui_dragging = FALSE
  /\ playing = FALSE
  /\ playback_time = 0
  /\ speed_scale = 3 * UI_W
  /\ speed_dragging = FALSE
  /\ progress_dragging = FALSE
  /\ since_last_frame = 0
  /\ cur_idx = -1
  /\ cur_alpha = <<0, 1>>
  /\ cur_pos = <<0, 0, 0>>
  /\ z_draw = NoDraw
  /\ pc = p
  /\ should_close = FALSE
  /\ left_down = FALSE
  /\ input_open = TRUE
  /\ GlDown
  /\ VeLoaded

\* nothing of the terrain is built yet
TerrainPending ==
  /\ stride = <<>>
  /\ ds_shape = <<>>
  /\ global_scale = <<>>
  /\ vertices = <<>>
  /\ tangents = <<>>
  /\ normals = <<>>
  /\ colors = <<>>
  /\ indices = <<>>
  /\ build_status = "pending"

\* ---- path kinematics of any path
\* longest path, in samples
MaxPath == 7

\* one step of a path: north, east, south, north-east, straight up
KinSteps == { <<0, 1, 0>>, <<1, 0, 0>>, <<0, -1, 0>>, <<1, 1, 0>>, <<0, 0, 1>> }

RECURSIVE StepSum(_, _)
StepSum(steps, k) ==
  IF k = 0 THEN <<0, 0, 0>> ELSE VecAdd(StepSum(steps, k - 1), steps[k])

\* the path that starts at the origin and takes the steps in turn
PathFrom(steps) == [i \in 1..(Len(steps) + 1) |-> StepSum(steps, i - 1)]

KinPaths ==
  { PathFrom(steps) : steps \in UNION { [1..k -> KinSteps] : k \in 0..(MaxPath - 1) } }

\* a track without time data (one point per second) on any path
InitKin ==
  /\ \E pts \in KinPaths :
       /\ path_pts = pts
       /\ rel_times = RelTimes([i \in 1..Len(pts) |-> 0])
       /\ total_duration = TotalDuration(RelTimes([i \in 1..Len(pts) |-> 0]))
  /\ path_dirs = <<>>
  /\ turn_angles = <<>>
  /\ kin_status = "pending"
  /\ LoadTerrain(SlopeDem, SlopeCell)
  /\ StateAt("derive")

\* the precomputation of path_dirs and turn_angles
DerivePath ==
  /\ pc = "derive"
  /\ path_dirs' = Kinematics(path_pts).dirs
  /\ turn_angles' = Kinematics(path_pts).turns
  /\ kin_status' = Kinematics(path_pts).status
  /\ pc' = IF Kinematics(path_pts).status = "ok" THEN "derived" ELSE "crashed"
  /\ UNCHANGED <<veVars, glVars, trackVars, demVars, meshVars, camVars, zVars, playVars,
                 since_last_frame, lookupVars, should_close, left_down,
                 input_open>>

SpecKin == InitKin /\ [][DerivePath]_vars

\* ---- downsampling of any raw grid size
\* largest raw grid height
MaxRaw == 1100

\* raw grid widths: one column, at the cap, between the cap and twice the
\* cap, twice the cap and just above
RawWidths == { 1, MAX_SIZE, (3 * MAX_SIZE) \div 2, 2 * MAX_SIZE, 2 * MAX_SIZE + 1 }

\* only the shape of the raw grid matters to the strides: the heights are
\* left out
InitStride ==
  /\ \E h \in 1..MaxRaw, w \in RawWidths : raw_shape = <<h, w>>
  /\ dem = <<>>
  /\ cell = <<1, 1>>
  /\ TerrainPending
  /\ LoadTrack(<<0, 0, 0>>)
  /\ StateAt("downsample")

\* h, w = dem.shape ... rows, cols = dem_ds.shape
Downsample ==
  /\ pc = "downsample"
  /\ stride' = DsStride(raw_shape)
  /\ ds_shape' = DsShape(raw_shape)
  /\ pc' = "build"
  /\ UNCHANGED <<veVars, glVars, trackVars, kinVars, demVars, global_scale, vertices, tangents,
                 normals, colors, indices, build_status, camVars, zVars,
                 playVars, since_last_frame, lookupVars, should_close,
                 left_down, input_open>>

SpecStride == InitStride /\ [][Downsample]_vars

\* ---- mesh of any small grid
\* largest number of cells of a raw grid
MaxCells == 9

Heights == { 0, 1 }
GridShapes ==
  { sh \in (1..MaxCells) \X (1..MaxCells) : sh[1] * sh[2] <= MaxCells }
\* every grid of two heights, a flat grid above zero, a grid of four levels
Dems ==
  UNION { [1..sh[1] -> [1..sh[2] -> Heights]] : sh \in GridShapes }
    \cup { << <<5, 5>>, <<5, 5>> >>, << <<0, 1>>, <<2, 3>> >> }
\* cell sizes: square, higher than wide, wider than high
Cells == { <<1, 1>>, <<1, 3>>, <<2, 1>> }

InitMesh ==
  /\ \E g0 \in Dems, cl \in Cells :
       /\ dem = g0
       /\ cell = cl
       /\ raw_shape = <<Len(g0), Len(g0[1])>>
  /\ TerrainPending
  /\ LoadTrack(<<0, 0, 0>>)
  /\ StateAt("downsample")

\* scaling and the vertex, normal, colour and index arrays
BuildMesh ==
  /\ pc = "build"
  /\ LET m == Mesh(dem, stride, cell)
     IN /\ global_scale' = m.scale
        /\ vertices' = m.vertices
        /\ tangents' = m.tangents
        /\ normals' = m.normals
        /\ colors' = m.colors
        /\ indices' = m.indices
        /\ build_status' = m.status
        /\ pc' = IF m.status = "ok" THEN "built" ELSE "crashed"
  /\ UNCHANGED <<veVars, glVars, trackVars, kinVars, demVars, stride, ds_shape, camVars, zVars,
                 playVars, since_last_frame, lookupVars, should_close,
                 left_down, input_open>>

SpecMesh == InitMesh /\ [][Downsample \/ BuildMesh]_vars

\* ---- normals of any pair of tangents
\* largest component of a tangent
MaxTan == 1

TangentVecs == [1..3 -> (-MaxTan)..MaxTan]

\* one vertex with tangents Tr, Tc
InitTangents ==
  /\ \E tr \in TangentVecs, tc \in TangentVecs : tangents = << <<tr, tc>> >>
  /\ dem = <<>>
  /\ cell = <<1, 1>>
  /\ raw_shape = <<>>
  /\ stride = <<>>
  /\ ds_shape = <<>>
  /\ global_scale = <<>>
  /\ vertices = <<>>
  /\ normals = <<>>
  /\ colors = <<>>
  /\ indices = <<>>
  /\ build_status = "pending"
  /\ LoadTrack(<<0, 0, 0>>)
  /\ StateAt("normals")

\* normals = np.cross(Tr, Tc) ... normals / norm
ComputeNormals ==
  /\ pc = "normals"
  /\ normals' = Normals(tangents)
  /\ pc' = "normals_done"
  /\ UNCHANGED <<veVars, glVars, trackVars, kinVars, demVars, stride, ds_shape, global_scale,
                 vertices, tangents, colors, indices, build_status, camVars,
                 zVars, playVars, since_last_frame, lookupVars, should_close,
                 left_down, input_open>>

\* the normals of the meshes of the small grids and of any pair of tangents
SpecNormal ==
  (InitMesh \/ InitTangents) /\ [][Downsample \/ BuildMesh \/ ComputeNormals]_vars

\* ------------------------------------------------------------ input handling
\* presses: two on the exaggeration slider (ratio 0 and 1), one on the
\* speed slider (ratio 1/4), the scrub bar, the play button, empty space
InputPressPoints ==
  { <<20, 226>>, <<220, 246>>, <<70, 266>>,
    <<640, 775>>, <<50, 306>>,
    <<640, 400>>, <<650, 300>> }

\* cursor positions while a widget holds the drag: left of the sliders, on
\* the other slider (ratio 3/4), right of the sliders on the scrub bar
WidgetMovePoints == { <<0, 236>>, <<170, 276>>, <<300, 780>> }
\* cursor positions otherwise
FreeMovePoints == { <<640, 400>>, <<650, 300>>, <<630, 500>> }

InputMovePoints ==
  IF ui_dragging \/ speed_dragging \/ progress_dragging
  THEN WidgetMovePoints ELSE FreeMovePoints

InitInput ==
  /\ LoadTrack(<<3, 5, 5, 7>>)
  /\ LoadTerrain(SlopeDem, SlopeCell)
  /\ InitState

NextInput ==
  \/ Frame
  \/ EndPoll
  \/ \E p \in InputPressPoints : MouseButtonPress(p[1], p[2])
  \/ MouseButtonRelease
  \/ \E p \in InputMovePoints : CursorMove(p[1], p[2])
  \/ \E yoffset \in ScrollOffsets : Scroll(yoffset)

SpecInput == InitInput /\ [][NextInput]_vars

\* ------------------------------------------------------------ start-up
\* plot_terrain_3d_opengl from its first line to the render loop
\* shape of a grid stored as a sequence of rows (an empty grid has no rows
\* or rows without elements)
ShapeOf(g) == <<Len(g), IF Len(g) = 0 THEN 0 ELSE Len(g[1])>>

\* windows read from the DEM: no rows, rows without columns, one sample, one
\* row, one column, and grids with at least two rows and columns
StartGrids ==
  { <<>>, << <<>>, <<>> >>, << <<4>> >>, << <<0, 1, 2>> >>,
    << <<0>>, <<1>>, <<2>> >>, SlopeDem, << <<0, 1, 0>>, <<1, 2, 1>> >>,
    << <<0, 0>>, <<0, 1>>, <<3, 1>> >> }

\* tracks: three points, and two points (the kinematics fail)
StartTracks == { <<0, 0, 0>>, <<0, 0>> }

\* the `state` dictionary does not exist before SetUp: until then its
\* entries are 0 and FALSE here
InitStart ==
  /\ \E times \in StartTracks :
       /\ rel_times = RelTimes(times)
       /\ path_pts = PathPts(Len(times))
       /\ total_duration = TotalDuration(RelTimes(times))
  /\ path_dirs = <<>>
  /\ turn_angles = <<>>
  /\ kin_status = "pending"
  /\ dem = <<>>
  /\ cell = <<1, 1>>
  /\ raw_shape = <<>>
  /\ TerrainPending
  /\ dist = 0
  /\ rot_x = 0
  /\ rot_z = 0
  /\ last_x = 0
  /\ last_y = 0
  /\ dragging = FALSE
  /\ z_scale = 0
  /\ ui_dragging = FALSE
  /\ playing = FALSE
  /\ playback_time = 0
  /\ speed_scale = 0
  /\ speed_dragging = FALSE
  /\ progress_dragging = FALSE
  /\ since_last_frame = 0
  /\ cur_idx = -1
  /\ cur_alpha = <<0, 1>>
  /\ cur_pos = <<0, 0, 0>>
  /\ z_draw = NoDraw
  /\ pc = "start"
  /\ should_close = FALSE
  /\ left_down = FALSE
  /\ input_open = TRUE
  /\ GlDown
  /\ VeLoaded

\* if not HAS_OPENGL: return
CheckOpenGL ==
  /\ pc = "start"
  /\ \E has_opengl \in BOOLEAN :
       IF has_opengl
       THEN pc' = "load" /\ UNCHANGED outcome
       ELSE pc' = "returned" /\ outcome' = "no_opengl"
  /\ UNCHANGED <<veVars, sceneVars, camVars, zVars, playVars, since_last_frame,
                 lookupVars, should_close, left_down, input_open, glfw_inited,
                 window_open, state_made, callbacks_set, gl_enabled, terminated>>

\* load_dem_window: it raises (the function returns), or it gives a window of
\* the DEM
LoadDem ==
  /\ pc = "load"
  /\ \/ /\ pc' = "returned"
        /\ outcome' = "dem_failed"
        /\ UNCHANGED demVars
     \/ /\ \E g \in StartGrids, cl \in Cells :
             /\ dem' = g
             /\ cell' = cl
             /\ raw_shape' = ShapeOf(g)
        /\ pc' = "downsample"
        /\ UNCHANGED outcome
  /\ UNCHANGED <<veVars, trackVars, kinVars, meshVars, camVars, zVars, playVars,
                 since_last_frame, lookupVars, should_close, left_down,
                 input_open, glfw_inited, window_open, state_made,
                 callbacks_set, gl_enabled, terminated>>

\* centring and scaling: X_ds.min() raises ValueError on an array without
\* elements
ScaleScene ==
  /\ pc = "build"
  /\ IF ds_shape[1] = 0 \/ ds_shape[2] = 0
     THEN /\ build_status' = "ValueError"
          /\ pc' = "crashed"
          /\ UNCHANGED <<global_scale, vertices>>
     ELSE /\ global_scale' = GlobalScale(DemDs(dem, stride), stride, cell)
          /\ vertices' = Vertices(DemDs(dem, stride), stride, cell)
          /\ pc' = "derive"
          /\ UNCHANGED build_status
  /\ UNCHANGED <<veVars, glVars, trackVars, kinVars, demVars, stride, ds_shape, tangents,
                 normals, colors, indices, camVars, zVars, playVars,
                 since_last_frame, lookupVars, should_close, left_down,
                 input_open>>

\* if not glfw.init(): return
GlfwInit ==
  /\ pc = "derived"
  /\ \E ok \in BOOLEAN :
       /\ glfw_inited' = ok
       /\ pc' = IF ok THEN "window" ELSE "returned"
       /\ outcome' = IF ok THEN outcome ELSE "init_failed"
  /\ UNCHANGED <<veVars, sceneVars, camVars, zVars, playVars, since_last_frame,
                 lookupVars, should_close, left_down, input_open, window_open,
                 state_made, callbacks_set, gl_enabled, terminated>>

\* faulty variant: the result of create_window is not looked at
CreateWindowUnchecked ==
  /\ pc = "window"
  /\ \E ok \in BOOLEAN :
       /\ window_open' = ok
       /\ pc' = "setup"
       /\ outcome' = IF ok THEN outcome ELSE "window_failed"
  /\ UNCHANGED <<veVars, sceneVars, camVars, zVars, playVars, since_last_frame,
                 lookupVars, should_close, left_down, input_open, glfw_inited,
                 state_made, callbacks_set, gl_enabled, terminated>>

\* window = glfw.create_window(...); if not window: glfw.terminate(); return
CreateWindow ==
  /\ pc = "window"
  /\ \E ok \in BOOLEAN :
       /\ window_open' = ok
       /\ terminated' = ~ok
       /\ pc' = IF ok THEN "setup" ELSE "returned"
       /\ outcome' = IF ok THEN outcome ELSE "window_failed"
  /\ UNCHANGED <<veVars, sceneVars, camVars, zVars, playVars, since_last_frame,
                 lookupVars, should_close, left_down, input_open, glfw_inited,
                 state_made, callbacks_set, gl_enabled>>

\* make_context_current, the `state` dictionary, the three callbacks, the
\* OpenGL initialisation
SetUp ==
  /\ pc = "setup"
  /\ dist' = 300 * DistUnit
  /\ rot_x' = 45 * 2
  /\ rot_z' = 0
  /\ last_x' = 0
  /\ last_y' = 0
  /\ dragging' = FALSE
  /\ z_scale' = (3 * UI_W) \div 2
  /\ ui_dragging' = FALSE
  /\ playing' = FALSE
  /\ playback_time' = 0
  /\ speed_scale' = 3 * UI_W
  /\ speed_dragging' = FALSE
  /\ progress_dragging' = FALSE
  /\ state_made' = TRUE
  /\ callbacks_set' = TRUE
  /\ gl_enabled' = TRUE
  /\ pc' = "arrays"
  /\ UNCHANGED <<veVars, sceneVars, since_last_frame, lookupVars, should_close,
                 left_down, input_open, glfw_inited, window_open, terminated,
                 outcome>>

\* faulty variant: an axis too short for np.gradient gets no normals and the
\* loop starts all the same
BuildArraysTolerant ==
  /\ pc = "arrays"
  /\ LET m == Mesh(dem, stride, cell)
     IN /\ tangents' = m.tangents
        /\ normals' = m.normals
        /\ colors' = m.colors
        /\ indices' = m.indices
        /\ build_status' = "ok"
        /\ pc' = "frame"
  /\ since_last_frame' = 0
  /\ UNCHANGED <<veVars, glVars, trackVars, kinVars, demVars, stride, ds_shape,
                 global_scale, vertices, camVars, zVars, playVars, lookupVars,
                 should_close, left_down, input_open>>

\* the vertex, normal, colour and index arrays (np.gradient raises ValueError
\* for an axis of fewer than two elements), then
\* state['last_frame_time'] = glfw.get_time() and the loop condition
BuildArrays ==
  /\ pc = "arrays"
  /\ LET m == Mesh(dem, stride, cell)
     IN /\ tangents' = m.tangents
        /\ normals' = m.normals
        /\ colors' = m.colors
        /\ indices' = m.indices
        /\ build_status' = m.status
        /\ pc' = IF m.status = "ok" THEN "frame" ELSE "crashed"
  /\ since_last_frame' = 0
  /\ UNCHANGED <<veVars, glVars, trackVars, kinVars, demVars, stride, ds_shape,
                 global_scale, vertices, camVars, zVars, playVars, lookupVars,
                 should_close, left_down, input_open>>

\* the render loop is running
InLoop == pc \in {"frame", "poll"}

\* the start-up, then the render loop with the play button and the close
\* request
NextStart ==
  \/ CheckOpenGL
  \/ LoadDem
  \/ Downsample
  \/ ScaleScene
  \/ DerivePath
  \/ GlfwInit
  \/ CreateWindow
  \/ SetUp
  \/ BuildArrays
  \/ Frame
  \/ EndPoll
  \/ LoopExit
  \/ (InLoop /\ TimePasses)
  \/ MouseButtonPress(50, PLAY_BTN_Y)
  \/ MouseButtonRelease
  \/ CloseRequest

SpecStart == InitStart /\ [][NextStart]_vars

\* the loop keeps polling and checking its condition
SpecStartLive ==
  /\ InitStart
  /\ [][NextStart]_vars
  /\ WF_vars(EndPoll)
  /\ WF_vars(LoopExit)

\* ------------------------------------------------------------ video editor
\* playback control of VideoEditorApp: the Tk thread runs the handlers one
\* at a time; the playback thread runs _play_video_loop beside it
\* frames of the loaded video (total_frames)
MaxFrames == 3

\* play_thread is not None and play_thread.is_alive()
IsAlive == thread_pc \in {"cond", "read", "exiting"}

\* toggle_play: playing is switched; turning it on starts a playback thread
\* unless the last one is still alive
toggle_play ==
  IF ~cap_open
  THEN UNCHANGED <<app_playing, thread_pc>>
  ELSE IF ~app_playing
  THEN /\ app_playing' = TRUE
       /\ thread_pc' = IF IsAlive THEN thread_pc ELSE "cond"
  ELSE /\ app_playing' = FALSE
       /\ UNCHANGED thread_pc

\* the play button, the menu entry, the space key
TogglePlay ==
  /\ ui_pc = "idle"
  /\ toggle_play
  /\ UNCHANGED <<rendererVars, cap_open, cap_pos, ui_pc, seek_target,
                 is_dragging_progress, was_playing_before_drag>>

\* stop_play: playing = False, then seek_to_frame(0)
StopPlay ==
  /\ ui_pc = "idle"
  /\ cap_open
  /\ app_playing' = FALSE
  /\ ui_pc' = "seeking"
  /\ seek_target' = 0
  /\ UNCHANGED <<rendererVars, cap_open, cap_pos, thread_pc,
                 is_dragging_progress, was_playing_before_drag>>

\* prev_frame, next_frame, jump_to_start, jump_to_end, rewind_5s,
\* forward_5s, on_timeline_click: seek_to_frame(n) whatever playing is
ManualSeek ==
  /\ ui_pc = "idle"
  /\ cap_open
  /\ ui_pc' = "seeking"
  /\ \E n \in 0..(MaxFrames - 1) : seek_target' = n
  /\ UNCHANGED <<rendererVars, app_playing, cap_open, cap_pos, thread_pc,
                 is_dragging_progress, was_playing_before_drag>>

\* on_progress_change: seek_to_frame(n) if not self.playing (otherwise only
\* the time label changes)
ProgressChange ==
  /\ ui_pc = "idle"
  /\ cap_open
  /\ ~app_playing
  /\ ui_pc' = "seeking"
  /\ \E n \in 0..(MaxFrames - 1) : seek_target' = n
  /\ UNCHANGED <<rendererVars, app_playing, cap_open, cap_pos, thread_pc,
                 is_dragging_progress, was_playing_before_drag>>

\* seek_to_frame: cap.set(CAP_PROP_POS_FRAMES, n) was made; cap.read() of
\* that frame and return to the event loop
SeekFinish ==
  /\ ui_pc = "seeking"
  /\ cap_pos' = seek_target + 1
  /\ ui_pc' = "idle"
  /\ UNCHANGED <<rendererVars, app_playing, cap_open, thread_pc, seek_target,
                 is_dragging_progress, was_playing_before_drag>>

\* on_progress_press
ProgressPress ==
  /\ ui_pc = "idle"
  /\ ~is_dragging_progress
  /\ is_dragging_progress' = TRUE
  /\ was_playing_before_drag' = app_playing
  /\ app_playing' = FALSE
  /\ UNCHANGED <<rendererVars, cap_open, cap_pos, thread_pc, ui_pc, seek_target>>

\* on_progress_release: toggle_play() if was_playing_before_drag
ProgressRelease ==
  /\ ui_pc = "idle"
  /\ is_dragging_progress
  /\ is_dragging_progress' = FALSE
  /\ IF was_playing_before_drag
     THEN toggle_play
     ELSE UNCHANGED <<app_playing, thread_pc>>
  /\ UNCHANGED <<rendererVars, cap_open, cap_pos, ui_pc, seek_target,
                 was_playing_before_drag>>

\* cleanup: playing = False, stop the audio, time.sleep(0.1) if the thread
\* is alive
CleanupBegin ==
  /\ ui_pc = "idle"
  /\ app_playing' = FALSE
  /\ ui_pc' = "cleanup"
  /\ UNCHANGED <<rendererVars, cap_open, cap_pos, thread_pc, seek_target,
                 is_dragging_progress, was_playing_before_drag>>

\* cleanup: cap.release(), cap = None, and the window is destroyed
CleanupRelease ==
  /\ ui_pc = "cleanup"
  /\ cap_open' = FALSE
  /\ ui_pc' = "closed"
  /\ UNCHANGED <<rendererVars, app_playing, cap_pos, thread_pc, seek_target,
                 is_dragging_progress, was_playing_before_drag>>

\* _play_video_loop: while self.playing and self.cap is not None (reached
\* from the start of the thread or after the sleep of the last iteration)
ThreadCond ==
  /\ thread_pc = "cond"
  /\ thread_pc' = IF app_playing /\ cap_open THEN "read" ELSE "exiting"
  /\ UNCHANGED <<rendererVars, app_playing, cap_open, cap_pos, ui_pc,
                 seek_target, is_dragging_progress, was_playing_before_drag>>

\* _play_video_loop: ret, frame = self.cap.read() and the rest of the
\* iteration.  Without a capture the call raises and the thread ends; a read
\* during a seek of the Tk thread is a data race on the capture, with any
\* position as its result; at the end of the video playing is set to False
ThreadRead ==
  /\ thread_pc = "read"
  /\ IF ~cap_open
     THEN /\ thread_pc' = "exiting"
          /\ UNCHANGED <<app_playing, cap_pos>>
     ELSE IF ui_pc = "seeking"
     THEN /\ \E q \in 0..MaxFrames : cap_pos' = q
          /\ thread_pc' = "cond"
          /\ UNCHANGED app_playing
     ELSE IF cap_pos < MaxFrames
     THEN /\ cap_pos' = cap_pos + 1
          /\ thread_pc' = "cond"
          /\ UNCHANGED app_playing
     ELSE /\ app_playing' = FALSE
          /\ thread_pc' = "exiting"
          /\ UNCHANGED cap_pos
  /\ UNCHANGED <<rendererVars, cap_open, ui_pc, seek_target,
                 is_dragging_progress, was_playing_before_drag>>

\* the thread function has returned and the thread stops being alive
ThreadExit ==
  /\ thread_pc = "exiting"
  /\ thread_pc' = "dead"
  /\ UNCHANGED <<rendererVars, app_playing, cap_open, cap_pos, ui_pc,
                 seek_target, is_dragging_progress, was_playing_before_drag>>

InitVe ==
  /\ LoadTrack(<<0, 0, 0>>)
  /\ LoadTerrain(SlopeDem, SlopeCell)
  /\ InitState

NextVe ==
  \/ TogglePlay
  \/ StopPlay
  \/ ManualSeek
  \/ ProgressChange
  \/ SeekFinish
  \/ ProgressPress
  \/ ProgressRelease
  \/ CleanupBegin
  \/ CleanupRelease
  \/ ThreadCond
  \/ ThreadRead
  \/ ThreadExit

SpecVe == InitVe /\ [][NextVe]_vars

\* ------------------------------------------------------------ claims
NoDrag == ~ui_dragging /\ ~speed_dragging /\ ~progress_dragging /\ ~dragging
FrameStep == pc = "frame" /\ pc' = "poll"
NPts == Len(path_pts)
\* cur_pos is the position of sample i (1-based)
PosIsSample(i) == \A k \in 1..3 : cur_pos[k] = path_pts[i][k] * cur_alpha[2]

\* C1: in every reachable state the playback cursor lies in
\* [0, total_duration].
C1_CursorInRange == 0 <= playback_time /\ playback_time <= total_duration

\* a tick at 50x has run into the end and was clamped there
C1_Witness ==
  /\ pc = "poll"
  /\ playback_time = total_duration
  /\ ~playing
  /\ speed_scale = SpeedAt(UI_X + UI_W)
  /\ cur_idx >= 0

\* C2 (as stated): whenever the cursor equals total_duration at the end of
\* a frame (the event poll has returned), playing is false.
C2_Original == (pc = "frame" /\ playback_time = total_duration) => ~playing

\* C2 (amended): a frame whose tick runs with no scrub drag active and
\* leaves the cursor at total_duration leaves playing false.
C2_StopsAtEnd ==
  [][(FrameStep /\ ~progress_dragging /\ playback_time' = total_duration)
       => ~playing']_vars

\* the cursor was put at the end by a scrub while playing, the button was
\* released, and the next frame's tick has stopped playback
C2_Witness ==
  /\ pc = "poll"
  /\ playback_time = total_duration
  /\ ~playing
  /\ ~left_down
  /\ NoDrag
  /\ since_last_frame = 0
  /\ cur_idx = NPts - 2

\* C3: a frame's tick changes the cursor only when playing and no scrub
\* drag is active, then to min(cursor + dt * speed, total), and stops
\* playback when the end is reached; otherwise cursor and playing are kept.
C3_TickStep ==
  [][FrameStep =>
       IF playing /\ ~progress_dragging
       THEN /\ playback_time' =
                 Min(playback_time + since_last_frame * speed_scale * ProgWidth,
                     total_duration)
            /\ playing' = (playback_time' # total_duration)
       ELSE playback_time' = playback_time /\ playing' = playing]_vars

\* a tick has advanced the cursor into the track and playback goes on
C3_Witness ==
  /\ pc = "poll"
  /\ playing
  /\ NoDrag
  /\ 0 < playback_time
  /\ playback_time < total_duration
  /\ since_last_frame = 0

\* C4 (as stated): the press that starts a scrub leaves playing false.
C4_Original == [][(~progress_dragging /\ progress_dragging') => ~playing']_vars

\* C4 (amended): a scrub does not pause: playing is unchanged by the press,
\* by every step during the drag and by the release, and a frame during
\* the drag leaves the cursor where the scrub put it.
C4_ScrubKeepsPlaying ==
  [][(progress_dragging \/ progress_dragging') =>
       /\ playing' = playing
       /\ (FrameStep => playback_time' = playback_time)]_vars

\* a frame has run during a scrub drag that started while playing
C4_Witness ==
  /\ pc = "frame"
  /\ progress_dragging
  /\ playing
  /\ 0 < playback_time
  /\ playback_time < total_duration
  /\ cur_idx >= 0

\* C5: a press on the play/pause button (the only press that starts no
\* drag) toggles playing; turning playback on with the cursor at or past
\* the end rewinds to 0, otherwise the cursor is kept.
C5_PlayButton ==
  [][(~left_down /\ left_down' /\ ~ui_dragging' /\ ~speed_dragging'
        /\ ~progress_dragging' /\ ~dragging') =>
       /\ playing' = ~playing
       /\ playback_time' =
            IF ~playing /\ playback_time >= total_duration
            THEN 0 ELSE playback_time]_vars

\* playback was resumed from the end: the cursor is back at 0 while the
\* last frame's lookup is still the one made at the end of the track
C5_Witness ==
  /\ left_down
  /\ NoDrag
  /\ playing
  /\ playback_time = 0
  /\ cur_idx = NPts - 2
  /\ cur_alpha[1] = cur_alpha[2]

\* C6: a press on the scrub bar at x sets the cursor to
\* clamp((x - prog_x) / prog_width, 0, 1) * total_duration and changes
\* neither playing nor speed_scale; at the middle of the bar the cursor is
\* half of total_duration.
C6_Seek ==
  [][\A p \in PressPoints :
       (InProgress(p[1], p[2]) /\ MouseButtonPress(p[1], p[2])) =>
         /\ playback_time' * ProgWidth =
              Max(0, Min(ProgWidth, p[1] - ProgX)) * total_duration
         /\ (2 * (p[1] - ProgX) = ProgWidth => 2 * playback_time' = total_duration)
         /\ playing' = playing
         /\ speed_scale' = speed_scale]_vars

\* a seek to the middle of the bar while playing at 50x
C6_Witness ==
  /\ progress_dragging
  /\ playing
  /\ 2 * playback_time = total_duration
  /\ speed_scale = SpeedAt(UI_X + UI_W)

\* C7: once playing with no scrub drag active and no further input, with
\* frames of positive dt the cursor reaches total_duration and from then
\* on stays there with playing false.
C7_PlaysToEnd ==
  []((~input_open /\ playing /\ ~progress_dragging)
       => <>[](playback_time = total_duration /\ ~playing))

\* playback left alone has reached the end and stopped
C7_Witness ==
  /\ ~input_open
  /\ playback_time = total_duration
  /\ ~playing
  /\ pc = "frame"
  /\ cur_idx = NPts - 2

\* C8 (as stated): with the cursor at time[i] the lookup returns pos[i],
\* for every sample i.
C8_Original ==
  pc = "poll" =>
    \A i \in 1..NPts : playback_time = rel_times[i] => PosIsSample(i)

\* last sample carrying the timestamp of sample i
LastOfRun(i) ==
  CHOOSE j \in i..NPts :
    /\ rel_times[j] = rel_times[i]
    /\ \A m \in (j + 1)..NPts : rel_times[m] # rel_times[i]

\* C8 (amended): with the cursor at time[i] the lookup returns the position
\* of the last sample carrying that timestamp, or of the second-to-last
\* sample of the track when its last two timestamps are that timestamp; so
\* it returns pos[i] for every sample whose timestamp no other sample has.
C8_ExactAtBoundaries ==
  pc = "poll" =>
    \A i \in 1..NPts :
      playback_time = rel_times[i] =>
        LET j == LastOfRun(i)
        IN IF j = NPts /\ rel_times[NPts - 1] = rel_times[NPts]
           THEN PosIsSample(NPts - 1)
           ELSE PosIsSample(j)

\* the cursor is at a timestamp shared by two samples inside the track
C8_Witness ==
  /\ pc = "poll"
  /\ \E i \in 1..(NPts - 2) :
       /\ rel_times[i] = rel_times[i + 1]
       /\ rel_times[i + 1] < rel_times[i + 2]
       /\ playback_time = rel_times[i]
       /\ PosIsSample(i + 1)
       /\ ~PosIsSample(i)

\* C9: with time[i] <= t < time[i+1] the lookup picks the pair (i, i+1)
\* and returns pos[i] + alpha * (pos[i+1] - pos[i]),
\* alpha = (t - time[i]) / (time[i+1] - time[i]); samples at 0, 10, 20 and
\* the cursor at 5 give P0 + 0.5 * (P1 - P0).
C9_Interpolation ==
  pc = "poll" =>
    /\ \A i \in 1..(NPts - 1) :
         (rel_times[i] <= playback_time /\ playback_time < rel_times[i + 1]) =>
           /\ cur_idx = i - 1
           /\ cur_alpha = <<playback_time - rel_times[i],
                            rel_times[i + 1] - rel_times[i]>>
           /\ \A k \in 1..3 :
                cur_pos[k] = path_pts[i][k] * cur_alpha[2]
                             + (path_pts[i + 1][k] - path_pts[i][k]) * cur_alpha[1]
    /\ (rel_times = <<0, 10 * TU, 20 * TU>> /\ playback_time = 5 * TU) =>
         \A k \in 1..3 :
           2 * cur_pos[k] = cur_alpha[2] * (path_pts[1][k] + path_pts[2][k])

\* the 0 / 10 / 20 scenario with the cursor at 5
C9_Witness ==
  /\ pc = "poll"
  /\ rel_times = <<0, 10 * TU, 20 * TU>>
  /\ playback_time = 5 * TU
  /\ cur_idx = 0

\* C10: for every cursor in [0, total_duration] the segment index is in
\* [0, n-2], alpha is in [0, 1], and a segment with equal timestamps gets
\* alpha = 0 without a division.
C10_LookupSafe ==
  pc = "poll" =>
    /\ cur_idx \in 0..(NPts - 2)
    /\ cur_alpha[2] > 0
    /\ 0 <= cur_alpha[1]
    /\ cur_alpha[1] <= cur_alpha[2]
    /\ (rel_times[cur_idx + 1] = rel_times[cur_idx + 2] => cur_alpha = <<0, 1>>)

\* the duration fell back to one second and the cursor is past the last
\* timestamp
C10_Witness ==
  /\ pc = "poll"
  /\ rel_times[NPts] = 0
  /\ total_duration = TU
  /\ playback_time = TU
  /\ cur_idx = NPts - 2
  /\ cur_alpha = <<0, 1>>


\* ---- path kinematics
\* the horizontal direction a quarter turn to the right of d, seen from
\* above with x east and y north: to the right of north (0, 1) is east (1, 0)
RightOf(d) == <<d[2], -d[1]>>
Dot2(a, b) == a[1] * b[1] + a[2] * b[2]
\* d2 is rotated clockwise (to the right) from d1, by less than half a turn
Clockwise(d1, d2) == Dot2(d2, RightOf(d1)) > 0
CounterClockwise(d1, d2) == Dot2(d2, RightOf(d1)) < 0
SameDirection(d1, d2) == Dot2(d2, RightOf(d1)) = 0 /\ Dot2(d1, d2) > 0
\* the segment that turn_angles[i] compares segment i with
LookAheadSegment(i) == Segment(path_pts, Min(i + LOOK_AHEAD, Len(path_pts) - 2))

\* C11 (as stated): for every i the loop computes, with both segments
\* longer than the epsilon: a look-ahead direction rotated clockwise from
\* the direction of segment i gives turn_angles[i] > 0, one rotated
\* counter-clockwise gives turn_angles[i] < 0, and equal directions give 0.
C11_SignConvention ==
  kin_status = "ok" =>
    \A i \in 0..(Len(path_pts) - 3) :
      LET d1 == Segment(path_pts, i)
          d2 == LookAheadSegment(i)
      IN (NormSqXY(d1) > 0 /\ NormSqXY(d2) > 0) =>
           /\ Clockwise(d1, d2) => turn_angles[i + 1][1] > 0
           /\ CounterClockwise(d1, d2) => turn_angles[i + 1][1] < 0
           /\ SameDirection(d1, d2) => turn_angles[i + 1][1] = 0

\* C12 (as stated): for every path of at least two samples the derivation
\* completes without an index error and path_dirs and turn_angles have the
\* length of the path.
C12_DerivationCompletes ==
  (pc # "derive" /\ Len(path_pts) >= 2) =>
    /\ kin_status = "ok"
    /\ Len(path_dirs) = Len(path_pts)
    /\ Len(turn_angles) = Len(path_pts)

\* ---- input handling
InWidget(x, y) ==
  InZSlider(x, y) \/ InSpeedSlider(x, y) \/ InProgress(x, y) \/ InPlayBtn(x, y)
AllMovePoints == WidgetMovePoints \cup FreeMovePoints
\* clamp(x - UI_X, 0, UI_W): the ratio of pixel x, as a numerator over UI_W
ClampedRatio(x) ==
  IF x < UI_X THEN 0 ELSE IF x > UI_X + UI_W THEN UI_W ELSE x - UI_X

\* C13: a left press inside the rectangle of a widget never starts a
\* camera drag, and no step between that press and the next release (the
\* button is down, no camera drag) changes yaw or pitch.
C13_UiPrecedence ==
  [][/\ \A p \in InputPressPoints :
          (InWidget(p[1], p[2]) /\ MouseButtonPress(p[1], p[2])) => ~dragging'
     /\ (left_down /\ ~dragging) => (rot_x' = rot_x /\ rot_z' = rot_z)]_vars

\* after a camera drag that changed yaw and pitch, the exaggeration slider
\* was pressed and the cursor moved over the speed slider
C13_Witness ==
  /\ left_down
  /\ ui_dragging
  /\ ~dragging
  /\ z_scale = ZScaleAt(170)
  /\ rot_x = 89 * 2
  /\ rot_z = 10

\* C14: while a slider holds the drag, a cursor movement to any position
\* sets that slider's value, clamped to its range, and changes nothing
\* else; only a release ends the capture; with the button up a cursor
\* movement changes no value.
C14_SliderCapture ==
  [][/\ \A p \in AllMovePoints :
          /\ (ui_dragging /\ CursorMove(p[1], p[2])) =>
               /\ z_scale' = UI_W + 4 * ClampedRatio(p[1])
               /\ ui_dragging'
               /\ UNCHANGED <<camVars, playVars>>
          /\ (speed_dragging /\ CursorMove(p[1], p[2])) =>
               /\ speed_scale' = UI_W + 49 * ClampedRatio(p[1])
               /\ speed_dragging'
               /\ UNCHANGED <<camVars, zVars, playing, playback_time,
                              progress_dragging>>
          /\ (~left_down /\ CursorMove(p[1], p[2])) =>
               UNCHANGED <<camVars, zVars, playVars>>
     /\ (ui_dragging /\ ~ui_dragging') => (left_down /\ ~left_down')
     /\ (speed_dragging /\ ~speed_dragging') => (left_down /\ ~left_down')]_vars

\* the speed slider holds the drag with the cursor right of it, on the
\* scrub bar (50x); an earlier exaggeration drag ended over the speed slider
C14_Witness ==
  /\ left_down
  /\ speed_dragging
  /\ speed_scale = 50 * UI_W
  /\ z_scale = ZScaleAt(170)
  /\ ~ui_dragging

\* C15: a press or captured drag at pixel x sets the exaggeration to
\* 1 + clamp(r, 0, 1) * 4 (the speed to 1 + clamp(r, 0, 1) * 49), a value
\* that depends on the pixel only; the exaggeration stays in [1, 5] and
\* the speed in [1, 50]; the knob drawn from the new value is at
\* UI_X + clamp(r, 0, 1) * UI_W.
C15_SliderMapping ==
  /\ [](/\ UI_W <= z_scale /\ z_scale <= 5 * UI_W
        /\ UI_W <= speed_scale /\ speed_scale <= 50 * UI_W)
  /\ [][/\ \A p \in InputPressPoints :
             /\ (InZSlider(p[1], p[2]) /\ MouseButtonPress(p[1], p[2])) =>
                  /\ z_scale' = UI_W + 4 * ClampedRatio(p[1])
                  /\ ZKnobX(z_scale')[1] = ZKnobX(z_scale')[2] * p[1]
             /\ (InSpeedSlider(p[1], p[2]) /\ MouseButtonPress(p[1], p[2])) =>
                  /\ speed_scale' = UI_W + 49 * ClampedRatio(p[1])
                  /\ SpeedKnobX(speed_scale')[1] = SpeedKnobX(speed_scale')[2] * p[1]
        /\ \A p \in AllMovePoints :
             /\ (ui_dragging /\ CursorMove(p[1], p[2])) =>
                  /\ z_scale' = UI_W + 4 * ClampedRatio(p[1])
                  /\ ZKnobX(z_scale')[1] =
                       ZKnobX(z_scale')[2] * (UI_X + ClampedRatio(p[1]))
             /\ (speed_dragging /\ CursorMove(p[1], p[2])) =>
                  /\ speed_scale' = UI_W + 49 * ClampedRatio(p[1])
                  /\ SpeedKnobX(speed_scale')[1] =
                       SpeedKnobX(speed_scale')[2] * (UI_X + ClampedRatio(p[1]))]_vars

\* both sliders were set and released: exaggeration 5.0 (a drag that ended
\* right of the slider, clamped), speed 13.25 (a press at ratio 1/4)
C15_Witness ==
  /\ ~left_down
  /\ NoDrag
  /\ z_scale = 5 * UI_W
  /\ 4 * speed_scale = 53 * UI_W

\* C16: the pitch stays in [10, 89] degrees; a step changes yaw or pitch
\* only if it is a cursor movement during a camera drag, and then
\* yaw -= 0.5 * dx and pitch = clamp(pitch + 0.5 * dy, 10, 89) for the
\* whole movement (dx, dy) of the cursor since the last position.
C16_PitchClamp ==
  /\ [](10 * 2 <= rot_x /\ rot_x <= 89 * 2)
  /\ [][(rot_x' # rot_x \/ rot_z' # rot_z) =>
          /\ dragging
          /\ \E p \in AllMovePoints :
               /\ CursorMove(p[1], p[2])
               /\ rot_z' = rot_z - (p[1] - last_x)
               /\ rot_x' = LET v == rot_x + (p[2] - last_y)
                           IN IF v < 10 * 2 THEN 10 * 2
                              ELSE IF v > 89 * 2 THEN 89 * 2 ELSE v]_vars

\* a camera drag up and to the right has run the pitch into its lower limit
C16_Witness ==
  /\ dragging
  /\ left_down
  /\ rot_x = 10 * 2
  /\ rot_z = -10
  /\ last_y = 300

\* ---- terrain mesh
\* the construction of the mesh arrays has ended, normally or not
BuildOver == pc \in { "built", "crashed" }
\* the stored normal <<n, q>> has length 1
UnitLength(nq) == Dot3(nq[1], nq[1]) = nq[2]
\* the stored normal <<n, q>> is (0, 0, 1)
IsPlusZ(nq) ==
  nq[1][1] = 0 /\ nq[1][2] = 0 /\ nq[1][3] > 0 /\ nq[1][3] * nq[1][3] = nq[2]
\* cross(Tr, Tc) of vertex k
CrossAt(k) == Cross3(tangents[k][1], tangents[k][2])

\* C17: a downsampled grid of R >= 2 rows and C >= 2 columns is built into
\* R*C vertices, R*C normals, R*C colours and 6*(R-1)*(C-1) indices, each
\* index in 0..R*C-1.
C17_MeshCounts ==
  (BuildOver /\ ds_shape[1] >= 2 /\ ds_shape[2] >= 2) =>
    LET R == ds_shape[1]
        C == ds_shape[2]
    IN /\ build_status = "ok"
       /\ Len(vertices) = R * C
       /\ Len(normals) = R * C
       /\ Len(colors) = R * C
       /\ Len(indices) = 6 * (R - 1) * (C - 1)
       /\ \A m \in 1..Len(indices) : 0 <= indices[m] /\ indices[m] <= R * C - 1

\* a 3 x 3 grid has been built: 9 vertices, 24 indices, the last one the
\* corner above the bottom-right vertex
C17_Witness ==
  /\ pc = "built"
  /\ ds_shape = <<3, 3>>
  /\ Len(vertices) = 9
  /\ Len(indices) = 24
  /\ indices[24] = 5

\* C18 (as stated): for every raw grid size the strides make the larger
\* dimension of the downsampled grid at most MAX_SIZE.
C18_CapRespected ==
  pc = "build" => (ds_shape[1] <= MAX_SIZE /\ ds_shape[2] <= MAX_SIZE)

FlatDem == Cardinality(GridValues(dem)) = 1

\* C20 (as stated): a 2 x 2 grid of equal heights is built without a
\* division by zero, with global_scale = target_size, and its four normals
\* are (0, 0, 1).
C20_Original ==
  (BuildOver /\ raw_shape = <<2, 2>> /\ FlatDem) =>
    /\ build_status = "ok"
    /\ global_scale = <<TargetSize, 1>>
    /\ \A k \in 1..4 : IsPlusZ(normals[k])

\* C20 (amended): no grid divides by zero; a 2 x 2 grid of equal heights
\* gets global_scale = target_size / max(range_x, range_y), the larger
\* side of its one cell, and four normals (0, 0, 1); the fallback
\* global_scale = target_size is taken exactly by the grids of a single
\* sample.
C20_FlatGrid ==
  BuildOver =>
    /\ global_scale[2] >= 1
    /\ (raw_shape = <<2, 2>> /\ FlatDem) =>
         /\ build_status = "ok"
         /\ global_scale = <<TargetSize, Max(cell[1], cell[2])>>
         /\ \A k \in 1..4 : IsPlusZ(normals[k])
    /\ (RangeX(ds_shape, stride, cell) = 0 /\ RangeY(ds_shape, stride, cell) = 0
          /\ RangeZ(DemDs(dem, stride)) = 0)
         <=> raw_shape = <<1, 1>>
    /\ raw_shape = <<1, 1>> => global_scale = <<TargetSize, 1>>

\* a flat 2 x 2 grid above zero with cells three times higher than wide
\* has been built: global_scale is 200 / 3
C20_Witness ==
  /\ pc = "built"
  /\ dem = << <<5, 5>>, <<5, 5>> >>
  /\ cell = <<1, 3>>
  /\ global_scale = <<TargetSize, 3>>
  /\ build_status = "ok"
\* ---- start-up and shutdown
\* the window of the DEM has been read and it has no elements, or one row,
\* or one column
Degenerate == raw_shape # <<>> /\ (raw_shape[1] < 2 \/ raw_shape[2] < 2)
EmptyGrid == raw_shape # <<>> /\ (raw_shape[1] = 0 \/ raw_shape[2] = 0)

\* C21: when the elevation grid is empty or has a single row or a single
\* column, the scene construction is rejected with an error (numpy's
\* ValueError: from the minimum of an empty array before GLFW is initialised,
\* from np.gradient otherwise) and the render loop is never entered: no
\* frame is drawn.
C21_DegenerateRejected ==
  Degenerate =>
    /\ ~InLoop
    /\ pc # "done"
    /\ z_draw = NoDraw
    /\ (pc = "crashed" /\ kin_status # "IndexError" => build_status = "ValueError")
    /\ (EmptyGrid => pc \in {"downsample", "build", "crashed"} /\ ~glfw_inited)
    /\ (build_status = "ValueError" => pc = "crashed")

\* a single-row grid is rejected by np.gradient, after the window was opened
C21_Witness ==
  /\ raw_shape = <<1, 3>>
  /\ pc = "crashed"
  /\ build_status = "ValueError"
  /\ kin_status = "ok"
  /\ window_open

FailedToStart == outcome \in {"no_opengl", "init_failed", "window_failed"}

\* C22: if OpenGL is missing, glfw.init() fails or the window cannot be
\* created, the renderer returns: the render loop is not entered, no input
\* callback is registered, no GL state is set and the `state` dictionary is
\* not created; after a failed window creation GLFW is terminated.  Nothing
\* runs after the return.
C22_NoLoopOnInitFailure ==
  /\ [](FailedToStart =>
          /\ pc = "returned"
          /\ ~callbacks_set
          /\ ~gl_enabled
          /\ ~state_made
          /\ ~window_open
          /\ z_draw = NoDraw
          /\ (outcome = "window_failed" => glfw_inited /\ terminated)
          /\ dist = 0 /\ z_scale = 0 /\ speed_scale = 0 /\ rot_x = 0)
  /\ [][pc # "returned"]_vars

\* the window could not be created after a successful preprocessing
C22_Witness ==
  /\ outcome = "window_failed"
  /\ pc = "returned"
  /\ glfw_inited
  /\ kin_status = "ok"
  /\ vertices # <<>>

\* C23: once the close request has been seen by the event poll, no further
\* frame (playback tick, lookup, drawing) runs; the loop leaves at its next
\* condition check, which terminates GLFW; and that check is reached.
C23_CloseTerminates ==
  /\ [][should_close => ~FrameStep /\ UNCHANGED lookupVars]_vars
  /\ [][should_close /\ pc = "frame" /\ pc' # pc => pc' = "done" /\ terminated']_vars
  /\ [](pc = "done" => should_close /\ terminated /\ outcome = "closed")
  /\ [](terminated /\ outcome = "running" => FALSE)
  /\ (should_close ~> (pc = "done" /\ terminated))

\* the window was closed while the track was playing
C23_Witness ==
  /\ pc = "done"
  /\ terminated
  /\ should_close
  /\ playing = TRUE
  /\ z_draw # NoDraw

\* ---- what the events of the render loop change
\* the input events by what they are: a step of the event poll that is not
\* a scroll and ends with a drag flag set is the press that set it or a
\* cursor move of that drag
InputStep == pc = "poll" /\ pc' = "poll" /\ since_last_frame' = since_last_frame
ScrollEvent == InputStep /\ dist' # dist
ZSliderEvent == InputStep /\ ~ScrollEvent /\ ui_dragging'
SpeedSliderEvent == InputStep /\ ~ScrollEvent /\ speed_dragging'
CameraEvent == InputStep /\ ~ScrollEvent /\ dragging'

\* C24: no frame and no input event changes the mesh arrays, the path
\* positions, the timestamps, path_dirs or turn_angles; an event of the
\* exaggeration slider changes z_scale (and the slider's drag flag) only;
\* every frame draws with the z factor z_scale / 1.5, so the default 1.5
\* draws the vertices as they were built.
C24_SceneReadOnly ==
  /\ [][UNCHANGED sceneVars]_vars
  /\ [][ZSliderEvent =>
          UNCHANGED <<camVars, playVars, since_last_frame, lookupVars>>]_vars
  /\ [][FrameStep =>
          /\ Len(z_draw') = 2
          /\ 3 * UI_W * z_draw'[1] = 2 * z_scale * z_draw'[2]
          /\ (z_scale = (3 * UI_W) \div 2 => z_draw'[1] = z_draw'[2])]_vars

\* the slider was dragged to its right end and a frame has drawn the
\* unchanged vertices with the factor 5 / 1.5
C24_Witness ==
  /\ ui_dragging
  /\ z_scale = 5 * UI_W
  /\ 3 * z_draw[1] = 10 * z_draw[2]
  /\ vertices = Vertices(SlopeDem, <<1, 1>>, SlopeCell)
  /\ Len(normals) = 4

\* C25: events of the exaggeration slider, camera drags and scroll events
\* leave playback_time, playing and speed_scale unchanged; events of the
\* speed slider change speed_scale only; nothing changes total_duration.
C25_PlaybackOwners ==
  /\ [][(ZSliderEvent \/ CameraEvent \/ ScrollEvent) =>
          UNCHANGED <<playback_time, playing, speed_scale, progress_dragging,
                      speed_dragging>>]_vars
  /\ [][SpeedSliderEvent =>
          UNCHANGED <<playback_time, playing, progress_dragging>>]_vars
  /\ [][total_duration' = total_duration]_vars

\* the speed slider is dragged during playback at a cursor set by a scrub
C25_Witness ==
  /\ speed_dragging
  /\ speed_scale = SpeedAt(170)
  /\ playing
  /\ playback_time = SeekTime(640, total_duration)
  /\ dist # 300 * DistUnit
  /\ rot_z # 0

FlagCount ==
  (IF ui_dragging THEN 1 ELSE 0) + (IF speed_dragging THEN 1 ELSE 0)
    + (IF progress_dragging THEN 1 ELSE 0) + (IF dragging THEN 1 ELSE 0)

\* C26: with alternating left presses and releases and any cursor moves in
\* between, at most one of ui_dragging, speed_dragging, progress_dragging
\* and dragging is true, a flag is true only while the button is down, and
\* a release clears all four.
C26_OneDragAtATime ==
  /\ [](FlagCount <= 1 /\ (FlagCount = 1 => left_down))
  /\ [][(left_down /\ ~left_down') => FlagCount' = 0]_vars

\* every kind of drag has taken place and the last one was released
C26_Witness ==
  /\ ~left_down
  /\ FlagCount = 0
  /\ z_scale = 1 * UI_W
  /\ speed_scale = SpeedAt(170)
  /\ playback_time = SeekTime(300, total_duration)
  /\ rot_z # 0

C28_NoSeekDuringPlayback ==
  /\ ~(ui_pc = "seeking" /\ thread_pc = "read")
  /\ ~(ui_pc = "closed" /\ thread_pc = "read")

\* C29: whenever playing is true with a video loaded and no handler under
\* way, a playback thread is at its loop condition or in the loop body.
C29_OneThreadWhilePlaying ==
  (app_playing /\ cap_open /\ ui_pc = "idle") => thread_pc \in {"cond", "read"}

\* C30: the release that ends a drag of the progress bar leaves playing with
\* the value it had just before the press (was_playing_before_drag).
C30_DragRestoresPlaying ==
  [][(is_dragging_progress /\ ~is_dragging_progress') =>
       app_playing' = was_playing_before_drag]_vars

============================================================================
